---- MODULE Spec2Model ----
(***************************************************************************)
(* Event sink management (src/sink.c): the sink registry (sink_find,       *)
(* __sink_new, sink_new_fd, sink_init) and the write path (sink_write).    *)
(*                                                                         *)
(* A sink is identified by its position in sink_list (its address in the   *)
(* C code): entries are only ever appended with LIST_ADDQ and never freed, *)
(* so the position is a stable identity.  NULL is 0.                       *)
(*                                                                         *)
(* Thread Registrar is the only caller of sink_new_fd (the registry is     *)
(* mutated from one thread); every thread calls sink_find and sink_write.  *)
(* Each thread's position inside a call is pc[t]; the steps are the points *)
(* where the code reads or writes memory that other threads see.           *)
(***************************************************************************)
EXTENDS Integers, Sequences, FiniteSets, TLC

(***************************************************************************)
(* Bounds of the model.                                                    *)
(***************************************************************************)
NThreads  == 2      \* threads 1..NThreads
MaxWrites == 2      \* sink_write calls started in one behaviour
MaxSinks  == 4      \* malloc fails once this many sinks are allocated

(***************************************************************************)
(* Program constants.                                                      *)
(***************************************************************************)
SIZE_BITS      == 16     \* width of size_t in the model
MAX_SYSLOG_LEN == 1024   \* default sink->maxlen
IOVEC_SLOTS    == 10     \* struct iovec iovec[10]
CH_LT          == 60     \* '<'
CH_ZERO        == 48     \* '0'
CH_GT          == 62     \* '>'
CH_NL          == 10     \* '\n'
STDOUT_FD      == 1
STDERR_FD      == 2
BadFd          == -1     \* no descriptor: the fd of a sink before it gets one

SIZE_MOD == 2 ^ SIZE_BITS
SIZE_MAX == SIZE_MOD - 1

Threads   == 1 .. NThreads
Registrar == 1
NULL      == 0

(***************************************************************************)
(* Arguments the callers pass.                                             *)
(***************************************************************************)
\* sink_new_fd(name, desc, fmt, fd): the two calls of sink_init, and calls
\* that repeat a name with the same handle and another format and description,
\* with another handle, and with a handle that is not open (BadFd)
NewFdInputs ==
    { <<"stdout", "standard output (fd#1)", "RAW",   STDOUT_FD>>,
      <<"stderr", "standard output (fd#2)", "RAW",   STDERR_FD>>,
      <<"stderr", "other",                  "SHORT", STDERR_FD>>,
      <<"stdout", "other",                  "RAW",   STDERR_FD>>,
      <<"stderr", "other",                  "RAW",   BadFd>> }
\* sink_find(name)
FindInputs  == {"stdout", "stderr"}
\* sink_write(sink, msg, nmsg): arrays of parts, each part a sequence of bytes
MsgInputs   == { << <<104>>, << >> >> }

VARIABLES
    sink_list,   \* the registry: sequence of sinks, in list order
    pc,          \* pc[t]: position of thread t
    new,         \* frame of the sink_new_fd call of Registrar
    ret,         \* ret[t]: value the call of thread t is about to return
    fname,       \* fname[t]: argument of the sink_find call of thread t
    wr,          \* wr[t]: frame of the sink_write call of thread t
    nwrite       \* nwrite[i]: sink_write calls started on sink i (history)

vars == <<sink_list, pc, new, ret, fname, wr, nwrite>>

(***************************************************************************)
(* Integer conversions and MIN.                                            *)
(***************************************************************************)
\* conversion of an integer to size_t
ToSizeT(x) == (x + SIZE_MOD) % SIZE_MOD

MIN(a, b) == IF a < b THEN a ELSE b

(***************************************************************************)
(* sink_find: first sink of the list whose name compares equal, or NULL.   *)
(***************************************************************************)
\* faulty sink_find: the walk never matches
sink_find_none(list, name) == NULL

sink_find(list, name) ==
    IF \E i \in 1 .. Len(list) : list[i].name = name
    THEN CHOOSE i \in 1 .. Len(list) :
            /\ list[i].name = name
            /\ \A j \in 1 .. (i - 1) : list[j].name # name
    ELSE NULL

(***************************************************************************)
(* The sink __sink_new initialises before it links it.                     *)
(***************************************************************************)
NewSink(name, desc, fmt) ==
    [ name            |-> name,
      desc            |-> desc,
      fmt             |-> fmt,
      type            |-> "NEW",
      syslog_facility |-> 0,
      syslog_minlvl   |-> 0,
      maxlen          |-> MAX_SYSLOG_LEN,
      fd              |-> BadFd,
      dropped         |-> 0,
      lock            |-> 0 ]

\* malloc: may fail at any time, and fails when memory is exhausted
MallocResults(list) == IF Len(list) < MaxSinks THEN {TRUE, FALSE} ELSE {FALSE}

\* faulty __sink_new: the fields are assigned before the lookup result is tested
SinkNew_overwrite(list, name, desc, fmt, ok) ==
    LET found == sink_find(list, name) IN
    IF found # NULL
    THEN [list |-> [list EXCEPT ![found].desc = desc, ![found].fmt = fmt], sink |-> found]
    ELSE IF ~ok THEN [list |-> list, sink |-> NULL]
    ELSE [list |-> Append(list, NewSink(name, desc, fmt)), sink |-> Len(list) + 1]

\* faulty __sink_new: the context is initialised before the lookup result is tested
SinkNew_reset(list, name, desc, fmt, ok) ==
    LET found == sink_find(list, name) IN
    IF found # NULL
    THEN [list |-> [list EXCEPT ![found].dropped = 0], sink |-> found]
    ELSE IF ~ok THEN [list |-> list, sink |-> NULL]
    ELSE [list |-> Append(list, NewSink(name, desc, fmt)), sink |-> Len(list) + 1]

\* __sink_new: the list after the call and the pointer returned
SinkNew(list, name, desc, fmt, ok) ==
    LET found == sink_find(list, name) IN
    IF found # NULL THEN [list |-> list, sink |-> found]
    ELSE IF ~ok     THEN [list |-> list, sink |-> NULL]
    ELSE [list |-> Append(list, NewSink(name, desc, fmt)), sink |-> Len(list) + 1]

(***************************************************************************)
(* sink_write, lines 104-140: the scatter-gather list.                     *)
(***************************************************************************)
\* faulty budget: no byte is kept for the newline
Budget_noreserve(maxlen) == IF maxlen # 0 THEN maxlen ELSE SIZE_MAX

\* initial budget: maxlen or ~0, minus the byte kept for the newline
Budget(maxlen) == ToSizeT((IF maxlen # 0 THEN maxlen ELSE SIZE_MAX) - 1)

\* faulty header: the level is not converted to a digit
ShortHdr_raw(minlvl) == <<CH_LT, minlvl % 256, CH_GT>>

\* the SHORT header
ShortHdr(minlvl) == <<CH_LT, (CH_ZERO + minlvl) % 256, CH_GT>>

\* faulty header slot: always 3 bytes, whatever the budget
HeaderStep_nomin(fmt, minlvl, maxlen) ==
    IF fmt = "SHORT"
    THEN [iov |-> << ShortHdr(minlvl) >>, maxlen |-> ToSizeT(maxlen - 3)]
    ELSE [iov |-> << >>, maxlen |-> maxlen]

\* state of the builder after the optional header
HeaderStep(fmt, minlvl, maxlen) ==
    IF fmt = "SHORT"
    THEN LET len == MIN(maxlen, 3) IN
         [iov |-> << SubSeq(ShortHdr(minlvl), 1, len) >>, maxlen |-> ToSizeT(maxlen - len)]
    ELSE [iov |-> << >>, maxlen |-> maxlen]

\* faulty copy loop: no slot is kept for the newline
RECURSIVE CopyLoop_full(_, _, _)
CopyLoop_full(iov, maxlen, msg) ==
    IF Len(msg) = 0 \/ ~(Len(iov) < IOVEC_SLOTS)
    THEN [iov |-> iov, maxlen |-> maxlen]
    ELSE LET len == MIN(maxlen, Len(Head(msg))) IN
         CopyLoop_full(IF len # 0 THEN Append(iov, SubSeq(Head(msg), 1, len)) ELSE iov,
                       ToSizeT(maxlen - len), Tail(msg))

\* the copy loop over the message parts
RECURSIVE CopyLoop(_, _, _)
CopyLoop(iov, maxlen, msg) ==
    IF Len(msg) = 0 \/ ~(Len(iov) < IOVEC_SLOTS - 1)
    THEN [iov |-> iov, maxlen |-> maxlen]
    ELSE LET len == MIN(maxlen, Len(Head(msg))) IN
         CopyLoop(IF len # 0 THEN Append(iov, SubSeq(Head(msg), 1, len)) ELSE iov,
                  ToSizeT(maxlen - len), Tail(msg))

\* the indices iovec[vec] the copy loop assigns, starting with vec slots filled
RECURSIVE CopyLoopWrites(_, _, _)
CopyLoopWrites(vec, maxlen, msg) ==
    IF Len(msg) = 0 \/ ~(vec < IOVEC_SLOTS - 1)
    THEN {}
    ELSE LET len == MIN(maxlen, Len(Head(msg))) IN
         {vec} \cup CopyLoopWrites(IF len # 0 THEN vec + 1 ELSE vec,
                                   ToSizeT(maxlen - len), Tail(msg))

\* every index of iovec[] a call assigns: header, parts, newline
SlotsWritten(type, fmt, minlvl, maxlen, msg) ==
    LET h == HeaderStep(fmt, minlvl, Budget(maxlen))
        c == CopyLoop(h.iov, h.maxlen, msg)
    IN  (IF fmt = "SHORT" THEN {0} ELSE {})
        \cup CopyLoopWrites(Len(h.iov), h.maxlen, msg)
        \cup (IF type = "FD" THEN {Len(c.iov)} ELSE {})

\* lines 104-134: the slots filled before the transport is looked at
BuildSlots(fmt, minlvl, maxlen, msg) ==
    LET h == HeaderStep(fmt, minlvl, Budget(maxlen))
    IN  CopyLoop(h.iov, h.maxlen, msg).iov

\* lines 136-140: a sink of type FD gets the trailing newline slot
BuildIovec(type, fmt, minlvl, maxlen, msg) ==
    IF type = "FD"
    THEN Append(BuildSlots(fmt, minlvl, maxlen, msg), <<CH_NL>>)
    ELSE BuildSlots(fmt, minlvl, maxlen, msg)

RECURSIVE IovLen(_)
IovLen(iov) == IF Len(iov) = 0 THEN 0 ELSE Len(Head(iov)) + IovLen(Tail(iov))

\* what writev may return: -1 on error, else a byte count up to the total
WritevResults(fd, iov) ==
    IF fd = BadFd THEN {-1} ELSE (-1) .. IovLen(iov)

\* faulty accounting: the test is sent < 0
Dropped_lt(sent) == sent < 0

\* faulty accounting: the test is inverted
Dropped_ge(sent) == sent >= 0

\* line 149: is the call accounted as a drop (sent is a size_t)
Dropped(sent) == sent <= 0

RECURSIVE SeqSum(_)
SeqSum(q) == IF Len(q) = 0 THEN 0 ELSE Head(q) + SeqSum(Tail(q))

(***************************************************************************)
(* Initial state: sink_list = LIST_HEAD_INIT(sink_list), no call is in     *)
(* progress.  The calls of sink_init are among the calls of Registrar.     *)
(***************************************************************************)
NoWr  == [sink |-> NULL, msg |-> << >>, iov |-> << >>, fd |-> BadFd, sent |-> 0,
          path |-> "none", acc |-> 0]
NoNew == [name |-> "", desc |-> "", fmt |-> "RAW", fd |-> BadFd, sink |-> NULL]

Init ==
    /\ sink_list = << >>
    /\ pc = [t \in Threads |-> "idle"]
    /\ new = NoNew
    /\ ret = [t \in Threads |-> NULL]
    /\ fname = [t \in Threads |-> ""]
    /\ wr = [t \in Threads |-> NoWr]
    /\ nwrite = << >>

(***************************************************************************)
(* sink_new_fd, called by Registrar.                                       *)
(***************************************************************************)
\* line 83: __sink_new(name, desc, fmt)
sink_new_fd_enter(name, desc, fmt, fd) ==
    /\ pc[Registrar] = "idle"
    /\ \E ok \in MallocResults(sink_list) :
        LET r == SinkNew(sink_list, name, desc, fmt, ok) IN
        /\ sink_list' = r.list
        /\ new' = [name |-> name, desc |-> desc, fmt |-> fmt, fd |-> fd, sink |-> r.sink]
        /\ nwrite' = IF Len(r.list) > Len(sink_list) THEN Append(nwrite, 0) ELSE nwrite
    /\ pc' = [pc EXCEPT ![Registrar] = "new_check"]
    /\ UNCHANGED <<fname, ret, wr>>

\* faulty test: the handle is not compared, any FD sink of that name is returned
NewFdCheck_anyfd(list, s, fd) ==
    IF s = NULL \/ list[s].type = "FD" THEN "return"
    ELSE IF list[s].type # "NEW" THEN "conflict"
    ELSE "specialize"

\* faulty test: lines 87-90 are missing
NewFdCheck_respec(list, s, fd) ==
    IF s = NULL \/ (list[s].type = "FD" /\ list[s].fd = fd) THEN "return"
    ELSE "specialize"

\* faulty check: a sink just created is returned without a type
NewFdCheck_nospec(list, s, fd) ==
    IF s = NULL \/ list[s].type = "NEW" \/ (list[s].type = "FD" /\ list[s].fd = fd)
    THEN "return"
    ELSE "conflict"

\* lines 84-90: what the call does with the sink __sink_new returned
NewFdCheck(list, s, fd) ==
    IF s = NULL \/ (list[s].type = "FD" /\ list[s].fd = fd) THEN "return"
    ELSE IF list[s].type # "NEW" THEN "conflict"
    ELSE "specialize"

\* lines 84-92
sink_new_fd_check ==
    /\ pc[Registrar] = "new_check"
    /\ LET o == NewFdCheck(sink_list, new.sink, new.fd) IN
       \/ /\ o = "return"
          /\ ret' = [ret EXCEPT ![Registrar] = new.sink]
          /\ pc' = [pc EXCEPT ![Registrar] = "new_end"]
          /\ UNCHANGED sink_list
       \/ /\ o = "conflict"
          /\ ret' = [ret EXCEPT ![Registrar] = NULL]
          /\ pc' = [pc EXCEPT ![Registrar] = "new_end"]
          /\ UNCHANGED sink_list
       \/ /\ o = "specialize"
          /\ sink_list' = [sink_list EXCEPT ![new.sink].type = "FD"]
          /\ pc' = [pc EXCEPT ![Registrar] = "new_setfd"]
          /\ UNCHANGED ret
    /\ UNCHANGED <<fname, new, wr, nwrite>>

\* line 93
sink_new_fd_setfd ==
    /\ pc[Registrar] = "new_setfd"
    /\ sink_list' = [sink_list EXCEPT ![new.sink].fd = new.fd]
    /\ ret' = [ret EXCEPT ![Registrar] = new.sink]
    /\ pc' = [pc EXCEPT ![Registrar] = "new_end"]
    /\ UNCHANGED <<fname, new, wr, nwrite>>

\* lines 94-95: end: return sink
sink_new_fd_return ==
    /\ pc[Registrar] = "new_end"
    /\ new' = NoNew
    /\ ret' = [ret EXCEPT ![Registrar] = NULL]
    /\ pc' = [pc EXCEPT ![Registrar] = "idle"]
    /\ UNCHANGED <<fname, sink_list, wr, nwrite>>

(***************************************************************************)
(* sink_find, called by any thread.                                        *)
(***************************************************************************)
\* lines 35-38: the list walk
sink_find_call(t, name) ==
    /\ pc[t] = "idle"
    /\ ret' = [ret EXCEPT ![t] = sink_find(sink_list, name)]
    /\ fname' = [fname EXCEPT ![t] = name]
    /\ pc' = [pc EXCEPT ![t] = "find_end"]
    /\ UNCHANGED <<sink_list, new, wr, nwrite>>

\* the caller has the result
sink_find_return(t) ==
    /\ pc[t] = "find_end"
    /\ ret' = [ret EXCEPT ![t] = NULL]
    /\ fname' = [fname EXCEPT ![t] = ""]
    /\ pc' = [pc EXCEPT ![t] = "idle"]
    /\ UNCHANGED <<sink_list, new, wr, nwrite>>

(***************************************************************************)
(* sink_write, called by any thread on a sink of the registry (a pointer   *)
(* sink_find or sink_new_fd returned to it at some earlier time).          *)
(***************************************************************************)
\* lines 104-140: the local scatter-gather list, then the test of the type
\* faulty budget: the byte for the newline is taken from the sink's maxlen
sink_write_enter_decr(t, s, msg) ==
    /\ pc[t] = "idle"
    /\ SeqSum(nwrite) < MaxWrites
    /\ LET k == sink_list[s]
       IN /\ wr' = [wr EXCEPT ![t] =
                     [ sink |-> s,
                       msg  |-> msg,
                       iov  |-> BuildIovec(k.type, k.fmt, k.syslog_minlvl, k.maxlen, msg),
                       fd   |-> BadFd,
                       sent |-> 0,
                       path |-> IF k.type = "FD" THEN "fd" ELSE "none",
                       acc  |-> 0 ]]
          /\ pc' = [pc EXCEPT ![t] = IF k.type = "FD" THEN "wrlock" ELSE "account"]
          /\ nwrite' = [nwrite EXCEPT ![s] = @ + 1]
          /\ sink_list' = [sink_list EXCEPT ![s].maxlen = Budget(k.maxlen)]
    /\ UNCHANGED <<fname, new, ret>>

sink_write_enter(t, s, msg) ==
    /\ pc[t] = "idle"
    /\ SeqSum(nwrite) < MaxWrites
    /\ LET k == sink_list[s]
       IN /\ wr' = [wr EXCEPT ![t] =
                     [ sink |-> s,
                       msg  |-> msg,
                       iov  |-> BuildIovec(k.type, k.fmt, k.syslog_minlvl, k.maxlen, msg),
                       fd   |-> BadFd,
                       sent |-> 0,
                       path |-> IF k.type = "FD" THEN "fd" ELSE "none",
                       acc  |-> 0 ]]
          /\ pc' = [pc EXCEPT ![t] = IF k.type = "FD" THEN "wrlock" ELSE "account"]
          /\ nwrite' = [nwrite EXCEPT ![s] = @ + 1]
    /\ UNCHANGED <<fname, sink_list, new, ret>>

\* faulty locking: the lock is taken without waiting for its holder
sink_write_wrlock_nowait(t) ==
    /\ pc[t] = "wrlock"
    /\ sink_list' = [sink_list EXCEPT ![wr[t].sink].lock = t]
    /\ pc' = [pc EXCEPT ![t] = "writev"]
    /\ UNCHANGED <<fname, new, ret, wr, nwrite>>

\* line 142: HA_RWLOCK_WRLOCK, blocks until no thread holds the lock
\* faulty locking: one lock for all the sinks of a handle
sink_write_wrlock_perfd(t) ==
    /\ pc[t] = "wrlock"
    /\ \A i \in 1 .. Len(sink_list) :
          sink_list[i].fd = sink_list[wr[t].sink].fd => sink_list[i].lock = 0
    /\ sink_list' = [sink_list EXCEPT ![wr[t].sink].lock = t]
    /\ pc' = [pc EXCEPT ![t] = "writev"]
    /\ UNCHANGED <<fname, new, ret, wr, nwrite>>

sink_write_wrlock(t) ==
    /\ pc[t] = "wrlock"
    /\ sink_list[wr[t].sink].lock = 0
    /\ sink_list' = [sink_list EXCEPT ![wr[t].sink].lock = t]
    /\ pc' = [pc EXCEPT ![t] = "writev"]
    /\ UNCHANGED <<fname, new, ret, wr, nwrite>>

\* line 143: writev on the sink's handle returns and its result is converted
\* to size_t
sink_write_writev(t) ==
    /\ pc[t] = "writev"
    /\ LET fd == sink_list[wr[t].sink].fd IN
       \E r \in WritevResults(fd, wr[t].iov) :
          wr' = [wr EXCEPT ![t].fd = fd, ![t].sent = ToSizeT(r)]
    /\ pc' = [pc EXCEPT ![t] = "wrunlock"]
    /\ UNCHANGED <<fname, sink_list, new, ret, nwrite>>

\* line 144: HA_RWLOCK_WRUNLOCK
\* faulty unlock: the lock is kept
sink_write_wrunlock_keep(t) ==
    /\ pc[t] = "wrunlock"
    /\ pc' = [pc EXCEPT ![t] = "account"]
    /\ UNCHANGED <<fname, sink_list, new, ret, wr, nwrite>>

sink_write_wrunlock(t) ==
    /\ pc[t] = "wrunlock"
    /\ sink_list' = [sink_list EXCEPT ![wr[t].sink].lock = 0]
    /\ pc' = [pc EXCEPT ![t] = "account"]
    /\ UNCHANGED <<fname, new, ret, wr, nwrite>>

\* lines 149-150: HA_ATOMIC_ADD on the drop counter
sink_write_account(t) ==
    /\ pc[t] = "account"
    /\ IF Dropped(wr[t].sent)
       THEN /\ sink_list' = [sink_list EXCEPT ![wr[t].sink].dropped = @ + 1]
            /\ wr' = [wr EXCEPT ![t].acc = 1]
       ELSE UNCHANGED <<sink_list, wr>>
    /\ pc' = [pc EXCEPT ![t] = "write_end"]
    /\ UNCHANGED <<fname, new, ret, nwrite>>

\* line 151: the call returns
sink_write_return(t) ==
    /\ pc[t] = "write_end"
    /\ wr' = [wr EXCEPT ![t] = NoWr]
    /\ pc' = [pc EXCEPT ![t] = "idle"]
    /\ UNCHANGED <<fname, sink_list, new, ret, nwrite>>

Next ==
    \/ \E a \in NewFdInputs : sink_new_fd_enter(a[1], a[2], a[3], a[4])
    \/ sink_new_fd_check
    \/ sink_new_fd_setfd
    \/ sink_new_fd_return
    \/ \E t \in Threads, name \in FindInputs : sink_find_call(t, name)
    \/ \E t \in Threads : sink_find_return(t)
    \/ \E t \in Threads, s \in 1 .. Len(sink_list), msg \in MsgInputs : sink_write_enter(t, s, msg)
    \/ \E t \in Threads : sink_write_wrlock(t)
    \/ \E t \in Threads : sink_write_writev(t)
    \/ \E t \in Threads : sink_write_wrunlock(t)
    \/ \E t \in Threads : sink_write_account(t)
    \/ \E t \in Threads : sink_write_return(t)

Spec == Init /\ [][Next]_vars

(***************************************************************************)
(* The write path on its own: one FD sink whose format, maxlen and          *)
(* syslog_minlvl were configured by its owner, and one thread that calls   *)
(* sink_write on it with messages of every shape.                          *)
(***************************************************************************)
MaxlenInputs == {0, 1, 2, 3, 4, 5, 10, MAX_SYSLOG_LEN}
MinlvlInputs == {0, 5, 7}

\* "hello"; 20 bytes in parts of 8, 0 and 12; nine and ten parts of one byte;
\* twelve parts of which ten are not empty; no part; one empty part
WriteMsgInputs ==
    { << <<104, 101, 108, 108, 111>> >>,
      << <<65, 66, 67, 68, 69, 70, 71, 72>>, << >>,
         <<73, 74, 75, 76, 77, 78, 79, 80, 81, 82, 83, 84>> >>,
      << <<97>>, <<98>>, <<99>>, <<100>>, <<101>>, <<102>>, <<103>>, <<104>>, <<105>> >>,
      << <<97>>, <<98>>, <<99>>, <<100>>, <<101>>, <<102>>, <<103>>, <<104>>, <<105>>,
         <<106>> >>,
      << << >>, <<97>>, <<98>>, << >>, <<99>>, <<100>>, <<101>>, <<102>>, <<103>>,
         <<104>>, <<105>>, <<106>> >>,
      << >>,
      << << >> >> }

\* a sink as sink_new_fd leaves it, with the fields its owner configured
ConfiguredSink(fmt, maxlen, minlvl) ==
    [NewSink("stdout", "standard output (fd#1)", fmt)
        EXCEPT !.type = "FD", !.fd = STDOUT_FD,
               !.maxlen = maxlen, !.syslog_minlvl = minlvl]

InitW ==
    /\ sink_list \in { << ConfiguredSink(fmt, maxlen, minlvl) >> :
                         fmt \in {"RAW", "SHORT"}, maxlen \in MaxlenInputs,
                         minlvl \in MinlvlInputs }
    /\ pc = [t \in Threads |-> "idle"]
    /\ new = NoNew
    /\ ret = [t \in Threads |-> NULL]
    /\ fname = [t \in Threads |-> ""]
    /\ wr = [t \in Threads |-> NoWr]
    /\ nwrite = <<0>>

NextW ==
    \/ \E msg \in WriteMsgInputs : sink_write_enter(Registrar, 1, msg)
    \/ sink_write_wrlock(Registrar)
    \/ sink_write_writev(Registrar)
    \/ sink_write_wrunlock(Registrar)
    \/ sink_write_account(Registrar)
    \/ sink_write_return(Registrar)

SpecW == InitW /\ [][NextW]_vars

(***************************************************************************)
(* Steps of a call, as seen in a transition.                               *)
(***************************************************************************)
Sinks == 1 .. Len(sink_list)

\* thread t is in a sink_write call that has not done its accounting yet
Writing(t) == pc[t] \in {"wrlock", "writev", "wrunlock", "account"}

\* the transition is the accounting step of thread t
AccountStep(t) == pc[t] = "account" /\ pc'[t] = "write_end"

\* writev returned r to thread t
Returned(t, r) == wr[t].path = "fd" /\ wr[t].sent = ToSizeT(r)

\* the sink thread t wrote to is an FD sink and writev was given its handle
OnFdSink(t) ==
    /\ sink_list[wr[t].sink].type = "FD"
    /\ ~(pc[Registrar] = "new_setfd" /\ new.sink = wr[t].sink)
    /\ sink_list[wr[t].sink].fd = wr[t].fd

\* the transition is the first step, or the test, of a sink_new_fd call
EnterStep == pc[Registrar] = "idle" /\ pc'[Registrar] = "new_check"
CheckStep == pc[Registrar] = "new_check" /\ pc'[Registrar] # "new_check"

\* the transition is a sink_find call of thread t
FindStep(t) == pc[t] = "idle" /\ pc'[t] = "find_end"

\* sink i exists, is of type FD and is not halfway through lines 92-93
Specialized(i) ==
    /\ sink_list[i].type = "FD"
    /\ ~(pc[Registrar] = "new_setfd" /\ new.sink = i)

(***************************************************************************)
(* C1: at most one thread at a time is inside the writev of a sink: the    *)
(* thread inside writev, and until it has unlocked, holds the sink's lock   *)
(* as writer, so two writes to the same sink never overlap.                *)
(***************************************************************************)
C1_WriteMutex ==
    /\ \A t \in Threads :
          pc[t] \in {"writev", "wrunlock"} => sink_list[wr[t].sink].lock = t
    /\ \A t1, t2 \in Threads :
          (t1 # t2 /\ pc[t1] = "writev" /\ pc[t2] = "writev")
              => wr[t1].sink # wr[t2].sink

\* one thread is inside writev while another waits for the same sink's lock
C1_Witness ==
    \E t1, t2 \in Threads :
        /\ t1 # t2
        /\ pc[t1] = "writev" /\ pc[t2] = "wrlock"
        /\ wr[t1].sink = wr[t2].sink

(***************************************************************************)
(* C2: a sink_write call on an FD sink whose writev returned -1 or 0       *)
(* increments the sink's drop counter by exactly one.                      *)
(***************************************************************************)
C2_NonPositiveCounted ==
    [][\A t \in Threads :
          (AccountStep(t) /\ OnFdSink(t) /\ (Returned(t, -1) \/ Returned(t, 0)))
              => sink_list' = [sink_list EXCEPT ![wr[t].sink].dropped = @ + 1]]_vars

(***************************************************************************)
(* C3: for an FD sink whose handle is not open, once every sink_write call *)
(* on it has returned, its drop counter equals the number of calls made.   *)
(***************************************************************************)
C3_AllFailuresCounted ==
    \A i \in Sinks :
        ( /\ Specialized(i)
          /\ sink_list[i].fd = BadFd
          /\ \A t \in Threads : ~(Writing(t) /\ wr[t].sink = i) )
        => sink_list[i].dropped = nwrite[i]

(***************************************************************************)
(* C4 as stated: a sink_write call on a sink whose type is still NEW       *)
(* leaves the drop counter as it was.                                      *)
(***************************************************************************)
C4_NewWriteNoAccounting ==
    [][\A t \in Threads :
          (AccountStep(t) /\ wr[t].path = "none") => sink_list' = sink_list]_vars

(***************************************************************************)
(* C4 amended: a sink_write call on a sink whose type is still NEW         *)
(* performs no transport write (it never takes the lock nor calls writev)  *)
(* and increments the sink's drop counter by exactly one.                  *)
(***************************************************************************)
C4_NewWriteCountsDrop ==
    /\ [](\A t \in Threads :
            pc[t] \in {"wrlock", "writev", "wrunlock"} => wr[t].path = "fd")
    /\ [][\A t \in Threads :
            (AccountStep(t) /\ wr[t].path = "none")
                => sink_list' = [sink_list EXCEPT ![wr[t].sink].dropped = @ + 1]]_vars

\* a call on a sink that was NEW has done its accounting
C4_Witness ==
    \E t \in Threads :
        pc[t] = "write_end" /\ wr[t].path = "none" /\ wr[t].acc = 1

(***************************************************************************)
(* C5: a sink_write call on an FD sink whose writev returned a strictly    *)
(* positive byte count, also one smaller than the bytes requested, leaves  *)
(* the drop counter (and the sink) unchanged.                              *)
(***************************************************************************)
C5_PositiveNotCounted ==
    [][\A t \in Threads :
          (AccountStep(t) /\ \E r \in 1 .. IovLen(wr[t].iov) : Returned(t, r))
              => sink_list' = sink_list]_vars

\* a call whose writev wrote only a part of the bytes has done its accounting
C5_Witness ==
    \E t \in Threads :
        /\ pc[t] = "write_end" /\ wr[t].path = "fd"
        /\ 0 < wr[t].sent /\ wr[t].sent < IovLen(wr[t].iov)
        /\ wr[t].acc = 0

(***************************************************************************)
(* C6: no two sinks of the registry have equal names.                      *)
(***************************************************************************)
C6_UniqueNames ==
    \A i, j \in Sinks : sink_list[i].name = sink_list[j].name => i = j

\* two sinks are registered and a call repeating a name has just failed
C6_Witness ==
    /\ Len(sink_list) = 2
    /\ pc[Registrar] = "new_end"
    /\ new.sink # NULL /\ ret[Registrar] = NULL

(***************************************************************************)
(* C7: sink_new_fd called with the name of an FD sink bound to another     *)
(* handle returns NULL and leaves the registry and that sink unchanged.    *)
(***************************************************************************)
Conflicts(s, fd) ==
    s # NULL /\ Specialized(s) /\ sink_list[s].fd # fd

C7_ConflictRejected ==
    [][ /\ (EnterStep /\ Conflicts(sink_find(sink_list, new'.name), new'.fd))
            => sink_list' = sink_list
        /\ (CheckStep /\ Conflicts(new.sink, new.fd))
            => /\ sink_list' = sink_list
               /\ pc'[Registrar] = "new_end" /\ ret'[Registrar] = NULL ]_vars

\* a call naming an FD sink with another handle is about to return NULL
C7_Witness ==
    /\ pc[Registrar] = "new_end"
    /\ Conflicts(new.sink, new.fd)
    /\ ret[Registrar] = NULL

(***************************************************************************)
(* C8: sink_new_fd called with the name and handle of an existing FD sink  *)
(* returns that sink, adds no entry and changes none of its fields, also   *)
(* when the call passes another format or description.                     *)
(***************************************************************************)
Duplicates(s, fd) ==
    s # NULL /\ Specialized(s) /\ sink_list[s].fd = fd

C8_DuplicateMerged ==
    [][ /\ (EnterStep /\ Duplicates(sink_find(sink_list, new'.name), new'.fd))
            => /\ sink_list' = sink_list
               /\ new'.sink = sink_find(sink_list, new'.name)
        /\ (CheckStep /\ Duplicates(new.sink, new.fd))
            => /\ sink_list' = sink_list
               /\ pc'[Registrar] = "new_end" /\ ret'[Registrar] = new.sink ]_vars

\* a call passing another format and description is about to return the sink
C8_Witness ==
    /\ pc[Registrar] = "new_end"
    /\ ret[Registrar] # NULL
    /\ sink_list[ret[Registrar]].fmt # new.fmt
    /\ sink_list[ret[Registrar]].desc # new.desc
    /\ sink_list[ret[Registrar]].fd = new.fd

(***************************************************************************)
(* C9: a successful sink_new_fd returns the sink sink_find finds under     *)
(* that name; what sink_find finds under a name never changes afterwards;  *)
(* sink_find returns NULL exactly for the names no sink has, and changes   *)
(* no state.                                                               *)
(***************************************************************************)
C9_FindReturnsCreated ==
    /\ []((pc[Registrar] = "new_end" /\ ret[Registrar] # NULL)
            => /\ ret[Registrar] \in Sinks
               /\ sink_list[ret[Registrar]].name = new.name
               /\ sink_find(sink_list, new.name) = ret[Registrar])
    /\ [][\A n \in FindInputs :
            sink_find(sink_list, n) # NULL
                => sink_find(sink_list', n) = sink_find(sink_list, n)]_vars
    /\ [][\A t \in Threads :
            FindStep(t)
                => /\ UNCHANGED <<sink_list, new, wr, nwrite>>
                   /\ (ret'[t] = NULL) <=> (\A i \in Sinks : sink_list[i].name # fname'[t])
                   /\ ret'[t] # NULL => /\ ret'[t] \in Sinks
                                        /\ sink_list[ret'[t]].name = fname'[t]]_vars

\* sink_find returns the second sink of the registry after writes were lost on it
C9_Witness ==
    \E t \in Threads :
        /\ pc[t] = "find_end" /\ ret[t] = 2
        /\ sink_list[2].dropped > 0

(***************************************************************************)
(* C10: sinks are NEW or FD; a sink of type FD stays of type FD; the type  *)
(* changes only in the test of a sink_new_fd call on that sink and the     *)
(* handle only in the assignment that follows it, which is reached only    *)
(* from a sink of type NEW: so the type changes at most once, from NEW to  *)
(* FD, and the handle stored then never changes afterwards.                *)
(***************************************************************************)
C10_TypeOneWay ==
    /\ [](\A i \in Sinks : sink_list[i].type \in {"NEW", "FD"})
    /\ [][\A i \in Sinks :
            /\ i \in 1 .. Len(sink_list')
            /\ sink_list[i].type = "FD" => sink_list'[i].type = "FD"
            /\ sink_list'[i].type # sink_list[i].type
                  => pc[Registrar] = "new_check" /\ new.sink = i
            /\ sink_list'[i].fd # sink_list[i].fd
                  => pc[Registrar] = "new_setfd" /\ new.sink = i]_vars
    /\ [][(pc[Registrar] # "new_setfd" /\ pc'[Registrar] = "new_setfd")
            => /\ pc[Registrar] = "new_check"
               /\ sink_list[new.sink].type = "NEW"
               /\ sink_list'[new.sink].type = "FD"]_vars

\* a later call with another handle has ended on a sink that lost a write
C10_Witness ==
    \E i \in Sinks :
        /\ Specialized(i) /\ sink_list[i].dropped > 0
        /\ pc[Registrar] = "new_end" /\ new.sink = i /\ new.fd # sink_list[i].fd

(***************************************************************************)
(* C11: along every interleaving of sink_new_fd, sink_find and sink_write  *)
(* calls a sink's drop counter never decreases and is never reset, also    *)
(* not by registering its name again; it changes only in the accounting    *)
(* step of a sink_write call on that sink, by one, once per call.          *)
(***************************************************************************)
C11_DroppedMonotonic ==
    /\ [](\A t \in Threads : wr[t].acc \in {0, 1})
    /\ [][\A i \in Sinks :
            /\ i \in 1 .. Len(sink_list')
            /\ sink_list'[i].dropped >= sink_list[i].dropped
            /\ sink_list'[i].dropped # sink_list[i].dropped
                  => \E t \in Threads :
                        /\ AccountStep(t) /\ wr[t].sink = i
                        /\ wr[t].acc = 0 /\ wr'[t].acc = 1
                        /\ sink_list'[i].dropped = sink_list[i].dropped + 1]_vars

\* a sink that has counted a drop has been registered again under its name
C11_Witness ==
    /\ pc[Registrar] = "new_end"
    /\ ret[Registrar] # NULL
    /\ sink_list[ret[Registrar]].dropped > 0
    /\ sink_list[ret[Registrar]].fmt # new.fmt

(***************************************************************************)
(* The bytes of a call, for the claims on the payload.                     *)
(***************************************************************************)
RECURSIVE Concat(_)
Concat(q) == IF Len(q) = 0 THEN << >> ELSE Head(q) \o Concat(Tail(q))

IsPrefix(p, q) == Len(p) <= Len(q) /\ SubSeq(q, 1, Len(p)) = p

Prefix(q, n) == SubSeq(q, 1, MIN(n, Len(q)))

NonEmptyParts(msg) == SelectSeq(msg, LAMBDA f : Len(f) > 0)

\* thread t is at the call of writev: wr[t].iov is what writev is handed
AtWritev(t) == pc[t] = "writev"

\* the sink of the call of thread t, and the bytes handed to writev
SinkOf(t)  == sink_list[wr[t].sink]
Payload(t) == Concat(wr[t].iov)

\* the header the format asks for
WantedHdr(k) ==
    IF k.fmt = "SHORT" THEN <<CH_LT, CH_ZERO + k.syslog_minlvl, CH_GT>> ELSE << >>

\* the parts that get a slot: the first non-empty ones, as many as there are
\* slots besides the header's and the newline's
PartSlots(k) == IOVEC_SLOTS - 1 - (IF k.fmt = "SHORT" THEN 1 ELSE 0)
Honoured(k, msg) == Prefix(NonEmptyParts(msg), PartSlots(k))

\* the slots of the message parts in wr[t].iov
PartsSent(t) ==
    SubSeq(wr[t].iov, IF SinkOf(t).fmt = "SHORT" THEN 2 ELSE 1, Len(wr[t].iov) - 1)

(***************************************************************************)
(* C12: for an FD sink with maxlen >= 1 the bytes handed to writev are the *)
(* prefix of length min(maxlen - 1, total) of (header if SHORT, then the   *)
(* honoured parts in order), followed by one newline; never more than      *)
(* maxlen bytes.                                                           *)
(***************************************************************************)
C12_PayloadIsPrefixPlusNewline ==
    \A t \in Threads :
        (AtWritev(t) /\ SinkOf(t).maxlen >= 1)
        => LET k    == SinkOf(t)
               full == WantedHdr(k) \o Concat(Honoured(k, wr[t].msg))
           IN  /\ Payload(t) = Prefix(full, k.maxlen - 1) \o <<CH_NL>>
               /\ Len(Payload(t)) <= k.maxlen

\* maxlen = 10, format RAW and 20 bytes of parts: 9 bytes and the newline
C12_Witness ==
    \E t \in Threads :
        /\ AtWritev(t)
        /\ SinkOf(t).maxlen = 10 /\ SinkOf(t).fmt = "RAW"
        /\ Len(Concat(wr[t].msg)) = 20
        /\ Payload(t) = <<65, 66, 67, 68, 69, 70, 71, 72, 73, CH_NL>>

(***************************************************************************)
(* C13: for an FD sink of format SHORT with maxlen 0 or >= 4 the bytes     *)
(* handed to writev begin with '<', the digit of syslog_minlvl, '>', go on *)
(* with a prefix of the message and end with a newline; for format RAW     *)
(* they are a prefix of the message and a newline, without header.         *)
(***************************************************************************)
C13_ShortHeader ==
    \A t \in Threads :
        AtWritev(t)
        => LET k == SinkOf(t)
               p == Payload(t)
               n == Len(p)
           IN  /\ (k.fmt = "SHORT" /\ (k.maxlen = 0 \/ k.maxlen >= 4))
                    => /\ n >= 4
                       /\ SubSeq(p, 1, 3) = <<CH_LT, CH_ZERO + k.syslog_minlvl, CH_GT>>
                       /\ IsPrefix(SubSeq(p, 4, n - 1), Concat(wr[t].msg))
                       /\ p[n] = CH_NL
               /\ k.fmt = "RAW"
                    => /\ n >= 1
                       /\ IsPrefix(SubSeq(p, 1, n - 1), Concat(wr[t].msg))
                       /\ p[n] = CH_NL

\* syslog_minlvl = 5, format SHORT, maxlen 10 and a 20 byte message
C13_Witness ==
    \E t \in Threads :
        /\ AtWritev(t)
        /\ SinkOf(t).fmt = "SHORT" /\ SinkOf(t).syslog_minlvl = 5
        /\ SinkOf(t).maxlen = 10
        /\ Payload(t) = <<60, 53, 62, 65, 66, 67, 68, 69, 70, CH_NL>>

(***************************************************************************)
(* C14: sink_write sends at most 8 parts of the message array, whatever    *)
(* the format: at most 8 slots hold message parts and parts after the 8th  *)
(* contribute no bytes.                                                    *)
(***************************************************************************)
C14_AtMostEightParts ==
    \A t \in Threads :
        AtWritev(t)
        => /\ Len(PartsSent(t)) <= 8
           /\ IsPrefix(Concat(PartsSent(t)), Concat(Prefix(wr[t].msg, 8)))

(***************************************************************************)
(* C15: the scatter-gather list never uses more than 10 slots: every index *)
(* assigned is below 10 and at most 10 slots are handed to writev; the     *)
(* first is the header's when the format is SHORT, the last the newline's, *)
(* the others hold the leading non-empty parts that fit, the rest being    *)
(* left out while the write is still made.                                 *)
(***************************************************************************)
C15_SlotsBounded ==
    \A t \in Threads :
        (pc[t] \in {"wrlock", "writev"})
        => LET k == SinkOf(t) IN
           /\ wr[t].path = "fd"
           /\ Len(wr[t].iov) <= IOVEC_SLOTS
           /\ \A i \in SlotsWritten(k.type, k.fmt, k.syslog_minlvl, k.maxlen, wr[t].msg) :
                 0 <= i /\ i < IOVEC_SLOTS
           /\ wr[t].iov[Len(wr[t].iov)] = <<CH_NL>>
           /\ k.fmt = "SHORT" => IsPrefix(wr[t].iov[1], WantedHdr(k))
           /\ Len(PartsSent(t)) <= PartSlots(k)
           /\ \A i \in 1 .. Len(PartsSent(t)) :
                 /\ Len(PartsSent(t)[i]) > 0
                 /\ IsPrefix(PartsSent(t)[i], NonEmptyParts(wr[t].msg)[i])

\* twelve parts, ten of them not empty: all 10 slots are used
C15_Witness ==
    \E t \in Threads :
        /\ AtWritev(t)
        /\ Len(wr[t].msg) = 12
        /\ Len(wr[t].iov) = IOVEC_SLOTS
        /\ 9 \in SlotsWritten(SinkOf(t).type, SinkOf(t).fmt, SinkOf(t).syslog_minlvl,
                              SinkOf(t).maxlen, wr[t].msg)

\* the slots before the newline's, and the bytes in the first n of them
BodySlots(t) == SubSeq(wr[t].iov, 1, Len(wr[t].iov) - 1)
BytesIn(q, n) == Len(Concat(SubSeq(q, 1, n)))

(***************************************************************************)
(* C20: the remaining budget, an unsigned integer, never wraps, whatever   *)
(* maxlen is (0, 1 or larger): the initial budget is the effective maxlen  *)
(* minus 1, each slot takes at most what remains, what remains at the end  *)
(* is the initial budget minus the bytes taken, and the header and part    *)
(* slots together hold at most the initial budget.                         *)
(***************************************************************************)
C20_BudgetNeverWraps ==
    \A t \in Threads :
        AtWritev(t)
        => LET k    == SinkOf(t)
               eff  == IF k.maxlen = 0 THEN SIZE_MAX ELSE k.maxlen
               body == BodySlots(t)
               h    == HeaderStep(k.fmt, k.syslog_minlvl, Budget(k.maxlen))
               c    == CopyLoop(h.iov, h.maxlen, wr[t].msg)
           IN  /\ Budget(k.maxlen) = eff - 1
               /\ \A i \in 1 .. Len(body) :
                     Len(body[i]) <= eff - 1 - BytesIn(body, i - 1)
               /\ BytesIn(body, Len(body)) <= eff - 1
               /\ c.maxlen = eff - 1 - BytesIn(body, Len(body))

\* maxlen = 2 and format SHORT: the header slot takes the one byte left
C20_Witness ==
    \E t \in Threads :
        /\ AtWritev(t)
        /\ SinkOf(t).maxlen = 2 /\ SinkOf(t).fmt = "SHORT"
        /\ Len(Concat(wr[t].msg)) = 20
        /\ Payload(t) = <<CH_LT, CH_NL>>

\* the transition is a step of a sink_write call of thread t
WriteStep(t) ==
    /\ pc'[t] # pc[t]
    /\ \/ pc[t] = "idle" /\ pc'[t] \in {"wrlock", "account"}
       \/ pc[t] \in {"wrlock", "writev", "wrunlock", "account", "write_end"}

\* the fields of a sink other than its drop counter and its lock
Settings(k) == [f \in (DOMAIN k) \ {"dropped", "lock"} |-> k[f]]

(***************************************************************************)
(* C16: a sink_write call changes nothing of its sink but the drop counter *)
(* and the lock, nothing of any other sink, and leaves the registry with   *)
(* the same sinks in the same order; maxlen keeps the value it got at      *)
(* creation, MAX_SYSLOG_LEN, through every operation.                      *)
(***************************************************************************)
C16_WriteKeepsSettings ==
    /\ [](\A i \in Sinks : sink_list[i].maxlen = MAX_SYSLOG_LEN)
    /\ [][\A i \in Sinks : i \in 1 .. Len(sink_list')
                           /\ sink_list'[i].maxlen = sink_list[i].maxlen]_vars
    /\ [][\A t \in Threads :
            WriteStep(t)
            => /\ Len(sink_list') = Len(sink_list)
               /\ \A i \in Sinks :
                     /\ Settings(sink_list'[i]) = Settings(sink_list[i])
                     /\ i # wr[t].sink /\ i # wr'[t].sink
                           => sink_list'[i] = sink_list[i]]_vars

\* a call on an FD sink went through writev and the accounting, and counted
C16_Witness ==
    \E t \in Threads :
        /\ pc[t] = "write_end"
        /\ wr[t].path = "fd" /\ wr[t].acc = 1
        /\ sink_list[wr[t].sink].dropped = 1
        /\ sink_list[wr[t].sink].lock = 0
        /\ sink_list[wr[t].sink].maxlen = MAX_SYSLOG_LEN

\* no sink_new_fd call is in progress
NoNewFdCall == pc[Registrar] \notin {"new_check", "new_setfd", "new_end"}

(***************************************************************************)
(* C18: whenever no sink_new_fd call is in progress every sink of the      *)
(* registry has type FD: a sink of type NEW exists only inside the         *)
(* sink_new_fd call that created it, before its test of the type; a call   *)
(* whose allocation failed leaves the registry as it was; and a sink_find  *)
(* made while no sink_new_fd call is in progress returns NULL or a sink of *)
(* type FD.                                                                *)
(***************************************************************************)
C18_NoNewSinkOutsideCall ==
    /\ [](\A i \in Sinks :
            sink_list[i].type = "NEW" => pc[Registrar] = "new_check" /\ new.sink = i)
    /\ [](NoNewFdCall => \A i \in Sinks : sink_list[i].type = "FD")
    /\ [][(EnterStep /\ new'.sink = NULL) => sink_list' = sink_list]_vars
    /\ [][\A t \in Threads :
            (FindStep(t) /\ NoNewFdCall /\ ret'[t] # NULL)
            => sink_list[ret'[t]].type = "FD"]_vars

\* two sinks are registered, no registration is going on, a lookup found one
C18_Witness ==
    /\ NoNewFdCall
    /\ Len(sink_list) >= 2
    /\ \E t \in Threads :
          /\ pc[t] = "find_end"
          /\ ret[t] # NULL
          /\ sink_list[ret[t]].type = "FD"

\* the transition takes or releases a lock in a sink_write call of thread t
LockStep(t) == pc[t] \in {"wrlock", "wrunlock"} /\ pc'[t] # pc[t]

(***************************************************************************)
(* C19: mutual exclusion is per sink, not per handle.  A successful        *)
(* sink_new_fd returns the sink of the name it was given, so two names     *)
(* with the same handle give two sinks; each sink has its own lock: a lock *)
(* changes only in a sink_write call on that sink, and a writer whose      *)
(* sink's lock is free can take it whatever the state of the other sinks,  *)
(* those of the same handle included.                                      *)
(***************************************************************************)
C19_LockPerSink ==
    /\ []((pc[Registrar] = "new_end" /\ ret[Registrar] # NULL)
            => /\ sink_list[ret[Registrar]].name = new.name
               /\ sink_list[ret[Registrar]].fd = new.fd
               /\ sink_list[ret[Registrar]].type = "FD")
    /\ [](\A i, j \in Sinks : sink_list[i].name = sink_list[j].name => i = j)
    /\ [](\A t \in Threads :
            (pc[t] = "wrlock" /\ sink_list[wr[t].sink].lock = 0)
            => ENABLED sink_write_wrlock(t))
    /\ [][\A i \in Sinks :
            sink_list'[i].lock # sink_list[i].lock
            => \E t \in Threads : LockStep(t) /\ wr[t].sink = i]_vars

\* two writers inside writev on two sinks of the same handle
C19_Witness ==
    \E t1, t2 \in Threads :
        /\ t1 # t2
        /\ pc[t1] = "writev" /\ pc[t2] = "writev"
        /\ wr[t1].sink # wr[t2].sink
        /\ Specialized(wr[t1].sink) /\ Specialized(wr[t2].sink)
        /\ sink_list[wr[t1].sink].fd = sink_list[wr[t2].sink].fd
        /\ sink_list[wr[t1].sink].fd # BadFd

(***************************************************************************)
(* Concurrent writers on one FD sink, under fair scheduling: a thread in a *)
(* call goes on running (weak fairness of its steps), writev returns, and  *)
(* the lock is fair: a thread that finds it free again and again ends up   *)
(* taking it (strong fairness of the acquisition).                         *)
(***************************************************************************)
InitL ==
    /\ sink_list \in { <<ConfiguredSink(fmt, MAX_SYSLOG_LEN, 0)>> : fmt \in {"RAW", "SHORT"} }
    /\ pc = [t \in Threads |-> "idle"]
    /\ new = NoNew
    /\ ret = [t \in Threads |-> NULL]
    /\ fname = [t \in Threads |-> ""]
    /\ wr = [t \in Threads |-> NoWr]
    /\ nwrite = <<0>>

NextL ==
    \E t \in Threads :
        \/ \E msg \in MsgInputs : sink_write_enter(t, 1, msg)
        \/ sink_write_wrlock(t)
        \/ sink_write_writev(t)
        \/ sink_write_wrunlock(t)
        \/ sink_write_account(t)
        \/ sink_write_return(t)

FairL ==
    \A t \in Threads :
        /\ SF_vars(sink_write_wrlock(t))
        /\ WF_vars(sink_write_writev(t))
        /\ WF_vars(sink_write_wrunlock(t))
        /\ WF_vars(sink_write_account(t))
        /\ WF_vars(sink_write_return(t))

SpecL == InitL /\ [][NextL]_vars /\ FairL

\* thread t is in a sink_write call
InWrite(t) == pc[t] \in {"wrlock", "writev", "wrunlock", "account", "write_end"}

\* some step of some sink_write call in progress
WriteProgress ==
    \E t \in Threads :
        \/ sink_write_wrlock(t)
        \/ sink_write_writev(t)
        \/ sink_write_wrunlock(t)
        \/ sink_write_account(t)
        \/ sink_write_return(t)

====
